---- MODULE Spec2Model ----
(***************************************************************************)
(* Model of get_netbox_device_report.py: the environment check, the        *)
(* paginated fetch of devices and virtual machines, the per-item filter    *)
(* and classification, the accumulation into (site, heading, subheading)   *)
(* buckets and the rendering of the workbook.                              *)
(*                                                                         *)
(* Python values are modelled as follows.  None / JSON null is the token   *)
(* NULL, a key that is not in a dict is the token ABSENT, text is a TLA+   *)
(* string.  A dict whose only consumed key is 'name' (site, tenant, ...)   *)
(* is modelled by that name.  Strings are compared through StringOrder,    *)
(* the code-point order of the strings the model uses.                     *)
(***************************************************************************)
EXTENDS Integers, Sequences, FiniteSets, TLC

\* ------------------------------------------------------------- bounds
\* Longest list of items a listing of the inventory family holds.
MaxItems == 2
\* Longest chain of pages of one listing in the pagination family.
MaxPages == 2
\* Largest role ID of the classification family (0 .. MaxRoleId).
MaxRoleId == 50

\* ------------------------------------------------------------- values
NULL == "<null>"
ABSENT == "<absent>"

Range(s) == {s[i] : i \in DOMAIN s}

\* Python truthiness of the modelled values: None, '' and a missing key
\* (dict.get gives None) are falsy, every other modelled value is truthy.
Truthy(v) == v \notin {NULL, ABSENT, ""}

\* dict.get(key) and dict.get(key, default) on a modelled field.
Get(v) == IF v = ABSENT THEN NULL ELSE v
GetDefault(v, default) == IF v = ABSENT THEN default ELSE v

\* Code-point order of the strings that the program sorts.
StringOrder ==
    << "SiteA", "SiteB", "Unassigned Site", "Unknown Device", "alpha", "beta" >>

StrRank(s) == CHOOSE i \in DOMAIN StringOrder : StringOrder[i] = s

\* ------------------------------------------------------------- constants
EXCLUDED_ROLE_IDS == {2, 11}

HEADING_ORDER ==
    << "Gateway/Router", "Switches", "Physical Hosts", "Virtual Machines",
       "Storage Area Network", "Network Attached Storage",
       "Production Workstations", "Uninterruptible Power Supply",
       "Printers", "Wireless Access Equipment" >>

Group(h, s, ids) == [heading |-> h, subheading |-> s, role_ids |-> ids]

\* The nested dict in iteration (insertion) order: heading by heading, and
\* within a heading subheading by subheading.
DEVICE_ROLE_GROUPS ==
    << Group("Gateway/Router", "Enterprise", <<12>>),
       Group("Gateway/Router", "Operational", <<34>>),
       Group("Switches", "Enterprise Core", <<5>>),
       Group("Switches", "Enterprise Edge", <<1>>),
       Group("Switches", "Operational", <<28>>),
       Group("Physical Hosts", "Enterprise", <<6>>),
       Group("Physical Hosts", "Operational", <<43>>),
       Group("Virtual Machines", "Enterprise", <<4, 19, 17, 20, 18, 33>>),
       Group("Virtual Machines", "Operational", <<35, 36, 37, 38, 39, 40>>),
       Group("Storage Area Network", "Enterprise", <<16>>),
       Group("Network Attached Storage", "Enterprise", <<15>>),
       Group("Network Attached Storage", "Operational", <<41>>),
       Group("Production Workstations", "Operational", <<30>>),
       Group("Production Workstations", "Quality Assurance", <<32>>),
       Group("Production Workstations", "Optimisation", <<31>>),
       Group("Uninterruptible Power Supply", "Enterprise", <<14>>),
       Group("Uninterruptible Power Supply", "Operational", <<44>>),
       Group("Printers", "Enterprise", <<24>>),
       Group("Printers", "Operational", <<26>>),
       Group("Wireless Access Equipment", "Access Points", <<10>>),
       Group("Wireless Access Equipment", "Point to Point", <<45>>),
       Group("Wireless Access Equipment", "Access Equipment", <<46>>) >>

\* Keys of DEVICE_ROLE_GROUPS, and the keys of DEVICE_ROLE_GROUPS[heading],
\* both in iteration order.
TableHeadings == {DEVICE_ROLE_GROUPS[i].heading : i \in DOMAIN DEVICE_ROLE_GROUPS}

RECURSIVE SubheadingsFrom(_, _)
SubheadingsFrom(heading, i) ==
    IF i > Len(DEVICE_ROLE_GROUPS) THEN << >>
    ELSE IF DEVICE_ROLE_GROUPS[i].heading = heading
         THEN << DEVICE_ROLE_GROUPS[i].subheading >> \o SubheadingsFrom(heading, i + 1)
         ELSE SubheadingsFrom(heading, i + 1)

Subheadings(heading) == SubheadingsFrom(heading, 1)

\* ------------------------------------------------------------- pure functions
RECURSIVE LookupFrom(_, _, _)
LookupFrom(groups, i, role_id) ==
    IF i > Len(groups) THEN << "Other", "Other" >>
    ELSE IF role_id \in Range(groups[i].role_ids)
         THEN << groups[i].heading, groups[i].subheading >>
         ELSE LookupFrom(groups, i + 1, role_id)

\* A lookup that never looks at the last group of the table.
get_heading_and_subheading_skip_last(role_id) ==
    LookupFrom(SubSeq(DEVICE_ROLE_GROUPS, 1, Len(DEVICE_ROLE_GROUPS) - 1), 1, role_id)

get_heading_and_subheading(role_id) == LookupFrom(DEVICE_ROLE_GROUPS, 1, role_id)

tick(val) == IF val THEN << "TICK", "00AA00" >> ELSE << "CROSS", "FF0000" >>

\* Lengths of the description texts the model uses, and the text that
\* desc[:length-3] + "..." makes of the long one.
StrLen(desc) ==
    CASE desc = "" -> 0
      [] desc = "short description" -> 17
      [] desc = "long description" -> 140
      [] OTHER -> 0

Truncated(desc) == "long descr..."

short_desc(desc, length) ==
    IF Truthy(desc) /\ StrLen(desc) > length THEN Truncated(desc)
    ELSE IF Truthy(desc) THEN desc ELSE ""

\* ------------------------------------------------------------- items
\* item['status']: a plain value, an object with a 'value' field, or no key.
\* The value tokens "int:1" and "bool:true" are the JSON number 1 and the
\* JSON value true.
Status(form, value) == [form |-> form, value |-> value]

\* item['role']: an object with an 'id', a bare integer, null, or no key.
\* id is << >> where there is none and << n >> for the integer n.
Role(form, id) == [form |-> form, id |-> id]

\* item['custom_fields']: << >> is null, << fields >> an object.
CustomFields(backup, mon) ==
    << [last_backup_data_prim |-> backup, mon_required |-> mon] >>

BaseItem ==
    [ id |-> 1, _item_type |-> ABSENT, name |-> "alpha",
      description |-> "short description", site |-> "SiteA",
      status |-> Status("plain", "active"), role |-> Role("dict", <<12>>),
      tenant |-> "Tenant1", contact |-> "Contact1", location |-> "Location1",
      platform |-> "Platform1", primary_ip |-> "10.0.0.1", serial |-> "SN1",
      custom_fields |-> CustomFields("2024-01-01", "True") ]

SiteValues == {ABSENT, NULL, "SiteB"}

StatusValues ==
    { Status("plain", "offline"), Status("dict", "active"),
      Status("dict", "offline"), Status("plain", "int:1"),
      Status("dict", "bool:true"), Status("dict", ABSENT),
      Status("absent", NULL) }

RoleValues ==
    { Role("int", <<5>>), Role("dict", <<2>>), Role("int", <<11>>),
      Role("dict", <<99>>), Role("dict", << >>), Role("null", << >>),
      Role("absent", << >>) }

\* The inventory family: BaseItem with one group of fields changed.
ItemPool ==
    {BaseItem}
    \cup {[BaseItem EXCEPT !.site = s] : s \in SiteValues}
    \cup {[BaseItem EXCEPT !.status = st] : st \in StatusValues}
    \cup {[BaseItem EXCEPT !.role = r] : r \in RoleValues}
    \cup {[BaseItem EXCEPT !.name = n] : n \in {"beta", NULL, ABSENT}}
    \cup { [BaseItem EXCEPT !.serial = ""],
           [BaseItem EXCEPT !.tenant = NULL],
           [BaseItem EXCEPT !.primary_ip = NULL],
           [BaseItem EXCEPT !.role = Role("dict", <<2>>), !.site = ABSENT,
                            !.status = Status("dict", "offline")],
           [BaseItem EXCEPT !.custom_fields = CustomFields(NULL, "False")],
           [BaseItem EXCEPT !.custom_fields = << >>, !.description = NULL],
           [BaseItem EXCEPT !.tenant = NULL, !.contact = NULL, !.location = NULL,
                            !.platform = NULL, !.primary_ip = NULL, !.serial = NULL,
                            !.description = "long description"] }

\* The items of the rerun family: equal and different names, two sites,
\* two roles, a field that only the device rows show.
RerunPool ==
    { BaseItem,
      [BaseItem EXCEPT !.serial = ""],
      [BaseItem EXCEPT !.name = "beta"],
      [BaseItem EXCEPT !.site = "SiteB", !.role = Role("int", <<5>>)] }

SeqsUpTo(S, n) == UNION {[1..k -> S] : k \in 0..n}

\* ------------------------------------------------------------- server
DevicesPath == "/api/dcim/devices/"
VMsPath == "/api/virtualization/virtual-machines/"
Listings == {DevicesPath, VMsPath}

\* A response: the HTTP status, the 'results' of the body (<< >> when the
\* body has no such key, << list >> otherwise) and the 'next' of the body:
\* "LINK" is the URL of the following page of the listing, NULL is null,
\* "" the empty string and ABSENT a body without the key.
Page(status, results, next) == [status |-> status, results |-> results, next |-> next]

NotFound == Page(404, << >>, ABSENT)

Url(base, listing, page) ==
    [kind |-> "url", base |-> base, listing |-> listing, page |-> page]

\* The values of `url` that are not a URL: None and ''.
NoUrl(kind) == [kind |-> kind, base |-> "", listing |-> "", page |-> 0]

Respond(srv, u) ==
    IF u.page \in DOMAIN srv[u.listing] THEN srv[u.listing][u.page] ELSE NotFound

\* A 'next' that follows the empty string like a link.
NextOf_follow_empty(resp, u) ==
    IF resp.next \in {"LINK", ""} THEN Url(u.base, u.listing, u.page + 1)
    ELSE NoUrl("none")

\* result.get('next') of the response to the request of u.
NextOf(resp, u) ==
    CASE resp.next = "LINK" -> Url(u.base, u.listing, u.page + 1)
      [] resp.next = "" -> NoUrl("empty")
      [] OTHER -> NoUrl("none")

ResultsOf(resp) == IF resp.results = << >> THEN << >> ELSE resp.results[1]

SinglePage(items) == << Page(200, << items >>, NULL) >>

Server(devs, vmachines) ==
    [l \in Listings |-> IF l = DevicesPath THEN devs ELSE vmachines]

\* The item that page k of a listing of the pagination family holds.
PageItem(listing, k) ==
    [BaseItem EXCEPT !.id = IF listing = DevicesPath THEN 100 + k ELSE 200 + k]

PageShapes == [status : {200, 500}, results : BOOLEAN, next : {"LINK", NULL, "", ABSENT}]

\* Chains of n pages: every page but the last answers 200 and links to the
\* following one; the last one ends the chain (next null, empty or absent),
\* fails with 500, or links to a page that does not exist (404).
ChainShapes(n) ==
    { sh \in [1..n -> PageShapes] :
        /\ \A i \in 1..(n - 1) : sh[i].status = 200 /\ sh[i].next = "LINK"
        /\ sh[n].status = 500 => (~sh[n].results /\ sh[n].next = ABSENT) }

\* A listing of the pagination family: the chain, and behind a last page
\* that ends the chain one more page that no link leads to.
ListingOf(listing, sh) ==
    LET n == Len(sh)
        pages == [i \in 1..n |->
                    Page(sh[i].status,
                         IF sh[i].results THEN << << PageItem(listing, i) >> >> ELSE << >>,
                         sh[i].next)]
    IN IF sh[n].status = 200 /\ sh[n].next # "LINK"
       THEN Append(pages, Page(200, << << PageItem(listing, n + 1) >> >>, NULL))
       ELSE pages

PagedListings(listing) ==
    UNION { {ListingOf(listing, sh) : sh \in ChainShapes(n)} : n \in 1..MaxPages }

\* ------------------------------------------------------------- environment
UNSET == "<unset>"
UrlValues == {UNSET, "", "http://nb-a/", "http://nb-b"}
TokenValues == {UNSET, "", "token"}

Environ(u, a, t) == [NETBOX_URL |-> u, NETBOX_API |-> a, NETBOX_TOKEN |-> t]

GoodEnviron == Environ("http://nb-a/", UNSET, "token")

\* os.environ.get(name)
EnvGet(e, name) == IF e[name] = UNSET THEN NULL ELSE e[name]

\* An "or" that never looks at its second operand.
Or_first_only(a, b) == a

\* a or b
Or(a, b) == IF Truthy(a) THEN a ELSE b

\* str.rstrip('/') on the base URLs of the model.
RStripSlash(s) == IF s = "http://nb-a/" THEN "http://nb-a" ELSE s

\* ------------------------------------------------------------- state
VARIABLES
    pc,                 \* position of the script
    env,                \* os.environ
    server,             \* what the inventory answers: listing -> pages
    clock,              \* the wall clock, read when the report is stamped
    reruns,             \* how many more times the script is launched
    NETBOX_URL,
    NETBOX_TOKEN,
    requests,           \* the URLs requested so far, in order
    url,                \* fetch_netbox_items: url
    fetch_all_items,    \* fetch_netbox_items: all_items
    devices,
    vms,
    all_items,
    idx,                \* aggregation loop: position in all_items (from 1)
    site_device_counts, \* <<site, heading, subheading>> -> count, devices
    debug_file,         \* /runner/device_debug.json: << >> or << entries >>
    wb,                 \* the workbook
    sites,              \* sorted(site_device_counts) of the worksheet loop
    site_idx,           \* worksheet loop: position in sites (from 1)
    excel_file,         \* /runner/cmdb_device_report.xlsx: << >> or << wb >>
    prev_file           \* excel_file as it was when this run started

vars == << pc, env, server, clock, reruns, NETBOX_URL, NETBOX_TOKEN, requests,
           url, fetch_all_items, devices, vms, all_items, idx,
           site_device_counts, debug_file, wb, sites, site_idx, excel_file,
           prev_file >>

NoBuckets == [k \in {} |-> [count |-> 0, devices |-> << >>]]

NoWorkbook ==
    [summary_rows |-> << >>, total_row |-> << >>, report_dt |-> 0, sheets |-> << >>]

\* The state of a process that has just been started.
Started ==
    /\ pc = "start"
    /\ NETBOX_URL = NULL
    /\ NETBOX_TOKEN = NULL
    /\ requests = << >>
    /\ url = NoUrl("none")
    /\ fetch_all_items = << >>
    /\ devices = << >>
    /\ vms = << >>
    /\ all_items = << >>
    /\ idx = 1
    /\ site_device_counts = NoBuckets
    /\ wb = NoWorkbook
    /\ sites = << >>
    /\ site_idx = 1

FirstRun ==
    /\ Started
    /\ clock = 1
    /\ debug_file = << >>
    /\ excel_file = << >>
    /\ prev_file = << >>

\* Inventory family: one page of devices drawn from ItemPool, no VM.
InitInventory ==
    /\ FirstRun
    /\ env = GoodEnviron
    /\ reruns = 0
    /\ \E items \in SeqsUpTo(ItemPool, MaxItems) :
          server = Server(SinglePage(items), SinglePage(<< >>))

\* Pagination family: both listings paged, with failing pages.
InitPagination ==
    /\ FirstRun
    /\ env = GoodEnviron
    /\ reruns = 0
    /\ \E d \in PagedListings(DevicesPath), v \in PagedListings(VMsPath) :
          server = Server(d, v)

\* Environment family: every setting of the three variables.
InitEnvironment ==
    /\ FirstRun
    /\ \E u \in UrlValues, a \in UrlValues, t \in TokenValues : env = Environ(u, a, t)
    /\ reruns = 0
    /\ server = Server(SinglePage(<< PageItem(DevicesPath, 1) >>),
                       SinglePage(<< PageItem(VMsPath, 1) >>))

\* Rerun family: the script is launched a second time on the same items.
InitRerun ==
    /\ FirstRun
    /\ env = GoodEnviron
    /\ reruns = 1
    /\ \E d \in SeqsUpTo(RerunPool, MaxItems), v \in SeqsUpTo({BaseItem}, 1) :
          server = Server(SinglePage(d), SinglePage(v))

\* Classification family: one device of every role ID, in both forms.
InitRoles ==
    /\ FirstRun
    /\ env = GoodEnviron
    /\ reruns = 0
    /\ \E r \in 0..MaxRoleId, form \in {"int", "dict"} :
          server = Server(SinglePage(<< [BaseItem EXCEPT !.role = Role(form, <<r>>)] >>),
                          SinglePage(<< >>))

Init ==
    \/ InitInventory
    \/ InitPagination
    \/ InitEnvironment
    \/ InitRerun
    \/ InitRoles

\* ------------------------------------------------------------- start-up
\* Lines 21-27: the environment check.
CheckEnv ==
    /\ pc = "start"
    /\ NETBOX_URL' = Or(EnvGet(env, "NETBOX_URL"), EnvGet(env, "NETBOX_API"))
    /\ NETBOX_TOKEN' = EnvGet(env, "NETBOX_TOKEN")
    /\ pc' = IF ~Truthy(NETBOX_URL') \/ ~Truthy(NETBOX_TOKEN') THEN "exit1" ELSE "open_debug"
    /\ UNCHANGED << env, server, clock, reruns, requests, url, fetch_all_items,
                    devices, vms, all_items, idx, site_device_counts, debug_file,
                    wb, sites, site_idx, excel_file, prev_file >>

devices_url == Url(RStripSlash(NETBOX_URL), DevicesPath, 1)
vms_url == Url(RStripSlash(NETBOX_URL), VMsPath, 1)

\* Lines 110-113 and 127-128: the debug file is truncated, then the device
\* listing is asked for.
OpenDebug ==
    /\ pc = "open_debug"
    /\ debug_file' = << << >> >>
    /\ url' = devices_url
    /\ fetch_all_items' = << >>
    /\ pc' = "fetch_devices"
    /\ UNCHANGED << env, server, clock, reruns, NETBOX_URL, NETBOX_TOKEN, requests,
                    devices, vms, all_items, idx, site_device_counts, wb, sites,
                    site_idx, excel_file, prev_file >>

\* ------------------------------------------------------------- fetch
Fetching == pc \in {"fetch_devices", "fetch_vms"}

item_type == IF pc = "fetch_devices" THEN "device" ELSE "vm"

Tagged(items, t) == [i \in DOMAIN items |-> [items[i] EXCEPT !._item_type = t]]

\* A status check that never raises.
raise_for_status_never(resp) == FALSE

\* r.raise_for_status()
raise_for_status(resp) == resp.status >= 400

\* Lines 117-124: one turn of the while loop.
FetchPage ==
    /\ Fetching
    /\ url.kind = "url"
    /\ requests' = Append(requests, url)
    /\ LET r == Respond(server, url)
       IN IF raise_for_status(r)
          THEN /\ pc' = "HTTPError"
               /\ UNCHANGED << url, fetch_all_items >>
          ELSE /\ fetch_all_items' = fetch_all_items \o Tagged(ResultsOf(r), item_type)
               /\ url' = NextOf(r, url)
               /\ pc' = pc
    /\ UNCHANGED << env, server, clock, reruns, NETBOX_URL, NETBOX_TOKEN, devices,
                    vms, all_items, idx, site_device_counts, debug_file, wb, sites,
                    site_idx, excel_file, prev_file >>

\* Lines 125 and 128-131: the device listing is exhausted.
ReturnDevices ==
    /\ pc = "fetch_devices"
    /\ url.kind # "url"
    /\ devices' = fetch_all_items
    /\ fetch_all_items' = << >>
    /\ url' = vms_url
    /\ pc' = "fetch_vms"
    /\ UNCHANGED << env, server, clock, reruns, NETBOX_URL, NETBOX_TOKEN, requests,
                    vms, all_items, idx, site_device_counts, debug_file, wb, sites,
                    site_idx, excel_file, prev_file >>

\* Lines 125 and 131-133: the VM listing is exhausted.
ReturnVMs ==
    /\ pc = "fetch_vms"
    /\ url.kind # "url"
    /\ vms' = fetch_all_items
    /\ all_items' = devices \o vms'
    /\ fetch_all_items' = << >>
    /\ idx' = 1
    /\ pc' = "aggregate"
    /\ UNCHANGED << env, server, clock, reruns, NETBOX_URL, NETBOX_TOKEN, requests,
                    url, devices, site_device_counts, debug_file, wb, sites,
                    site_idx, excel_file, prev_file >>

\* ------------------------------------------------------------- aggregation
\* Line 138: item.get('site', {}).get('name', 'Unassigned Site').  A null
\* site is None, and None has no get: AttributeError.
SiteRaises(item) == item.site = NULL
SiteName(item) == IF item.site = ABSENT THEN "Unassigned Site" ELSE item.site

\* Line 139.
StatusOf(item) ==
    IF item.status.form = "dict" THEN Get(item.status.value)
    ELSE IF item.status.form = "absent" THEN NULL
    ELSE item.status.value

\* A filter that lets every status through.
status_passes_any(status) == TRUE

\* Line 140: status in ('active', 1); in Python True == 1.
status_passes(status) == status \in {"active", "int:1", "bool:true"}

\* Lines 142-149: << >> is None.
RoleIdOf(item) ==
    IF item.role.form \in {"dict", "int"} THEN item.role.id ELSE << >>

\* An exclusion test that knows one of the two IDs only.
role_excluded_first_only(role_id) == role_id # << >> /\ role_id[1] \in {2}

\* Line 150: role_id in EXCLUDED_ROLE_IDS.
role_excluded(role_id) == role_id # << >> /\ role_id[1] \in EXCLUDED_ROLE_IDS

CfGet(cf, key) == IF cf = << >> THEN NULL ELSE Get(cf[1][key])

\* Lines 160-179, and 180-183 or 187-188.
DeviceInfo(item, site, heading, subheading) ==
    [ site |-> site, heading |-> heading, subheading |-> subheading,
      name |-> GetDefault(item.name, "Unknown Device"),
      description |-> GetDefault(item.description, ""),
      tenant |-> Get(item.tenant), contact |-> Get(item.contact),
      location |-> Get(item.location), platform |-> Get(item.platform),
      primary_ip |-> Get(item.primary_ip), serial |-> Get(item.serial),
      backup_primary |-> CfGet(item.custom_fields, "last_backup_data_prim"),
      monitoring_required |-> CfGet(item.custom_fields, "mon_required"),
      tenant_present |-> Truthy(Get(item.tenant)),
      contact_present |-> Truthy(Get(item.contact)),
      location_present |-> Truthy(Get(item.location)),
      platform_present |-> Truthy(Get(item.platform)) ]

\* Lines 180 and 186: the classification of a role ID or of None.
Classify(role_id) ==
    IF role_id # << >> THEN get_heading_and_subheading(role_id[1])
    ELSE << "Other", "Other" >>

EmptyBucket == [count |-> 0, devices |-> << >>]

\* site_device_counts[site][heading][subheading] of the defaultdict: the
\* bucket is made when it is first looked up.
Touch(counts, keys) == counts @@ [k \in keys \ DOMAIN counts |-> EmptyBucket]

\* An accumulation that counts every item twice.
AddDevice_double_count(counts, key, info) ==
    [Touch(counts, {key}) EXCEPT ![key] =
        [count |-> @.count + 2, devices |-> Append(@.devices, info)]]

\* Lines 184-185 and 189-190.
AddDevice(counts, key, info) ==
    [Touch(counts, {key}) EXCEPT ![key] =
        [count |-> @.count + 1, devices |-> Append(@.devices, info)]]

\* Lines 135-190: one turn of the aggregation loop.
AggregateItem ==
    /\ pc = "aggregate"
    /\ idx <= Len(all_items)
    /\ LET item == all_items[idx]
           role_id == RoleIdOf(item)
           hs == Classify(role_id)
           site == SiteName(item)
       IN /\ debug_file' = << Append(debug_file[1], item) >>
          /\ IF SiteRaises(item)
             THEN /\ pc' = "AttributeError"
                  /\ UNCHANGED << idx, site_device_counts >>
             ELSE /\ pc' = pc
                  /\ idx' = idx + 1
                  /\ IF ~status_passes(StatusOf(item)) \/ role_excluded(role_id)
                     THEN UNCHANGED site_device_counts
                     ELSE site_device_counts' =
                            AddDevice(site_device_counts, << site, hs[1], hs[2] >>,
                                      DeviceInfo(item, site, hs[1], hs[2]))
    /\ UNCHANGED << env, server, clock, reruns, NETBOX_URL, NETBOX_TOKEN, requests,
                    url, fetch_all_items, devices, vms, all_items, wb, sites,
                    site_idx, excel_file, prev_file >>

\* ------------------------------------------------------------- rendering
headers ==
    << "Device Name", "Description", "Tenant", "Contact", "Location", "Platform",
       "Primary IP", "Serial", "Backup Data - Primay", "Monitoring Required" >>

RECURSIVE FlattenSeq(_)
FlattenSeq(ss) == IF ss = << >> THEN << >> ELSE Head(ss) \o FlattenSeq(Tail(ss))

Last(s) == s[Len(s)]

\* sorted(site_device_counts)
SortedSites(counts) ==
    SelectSeq(StringOrder, LAMBDA s : \E k \in DOMAIN counts : k[1] = s)

\* heading in site_device_counts[site]
HeadingIn(counts, site, heading) ==
    \E k \in DOMAIN counts : k[1] = site /\ k[2] = heading

DevicesAt(counts, key) == IF key \in DOMAIN counts THEN counts[key].devices ELSE << >>

\* Lines 224-225: the subheadings the summary walks under a heading.
SubMap(heading) ==
    IF heading # "Other" /\ heading \in TableHeadings THEN Subheadings(heading)
    ELSE << "Other" >>

KeysUnder(site, heading, subs) == [m \in DOMAIN subs |-> << site, heading, subs[m] >>]

\* Lines 220-225: the buckets the summary looks at, in the order of the loops.
SummaryKeys(counts) ==
    LET order == HEADING_ORDER \o << "Other" >>
        ss == SortedSites(counts)
    IN FlattenSeq([i \in DOMAIN ss |->
         FlattenSeq([j \in DOMAIN order |->
            IF HeadingIn(counts, ss[i], order[j])
            THEN KeysUnder(ss[i], order[j], SubMap(order[j]))
            ELSE << >>])])

\* sum(1 for d in devices if ...), given the truth value for every device.
CountTrue(flags) == Cardinality({i \in DOMAIN flags : flags[i]})

\* Lines 226-251: a fraction tick/count is the pair << tick, count >>.
SummaryRow(key, devs) ==
    LET count == Len(devs)
        n == DOMAIN devs
    IN [ site |-> key[1], heading |-> key[2], subheading |-> key[3], count |-> count,
         pct |-> << << CountTrue([i \in n |-> devs[i].tenant_present]), count >>,
                    << CountTrue([i \in n |-> devs[i].contact_present]), count >>,
                    << CountTrue([i \in n |-> devs[i].location_present]), count >>,
                    << CountTrue([i \in n |-> devs[i].platform_present]), count >>,
                    << CountTrue([i \in n |-> Truthy(devs[i].primary_ip)]), count >>,
                    << CountTrue([i \in n |-> Truthy(devs[i].serial)]), count >>,
                    << CountTrue([i \in n |-> Truthy(devs[i].backup_primary)]), count >>,
                    << CountTrue([i \in n |-> devs[i].monitoring_required # "False"]),
                       count >> >> ]

SummaryRows(counts) ==
    LET keys == SelectSeq(SummaryKeys(counts), LAMBDA k : Len(DevicesAt(counts, k)) > 0)
    IN [i \in DOMAIN keys |-> SummaryRow(keys[i], DevicesAt(counts, keys[i]))]

RECURSIVE SumSeq(_)
SumSeq(ns) == IF ns = << >> THEN 0 ELSE Head(ns) + SumSeq(Tail(ns))

\* Lines 256-297: count * (tick / count) is tick.
TotalRow(rows) ==
    LET total_count == SumSeq([i \in DOMAIN rows |-> rows[i].count])
    IN [ site |-> "ALL SITES", heading |-> "", subheading |-> "",
         count |-> total_count,
         pct |-> [c \in 1..8 |->
                    IF total_count > 0
                    THEN << SumSeq([i \in DOMAIN rows |-> rows[i].pct[c][1]]), total_count >>
                    ELSE << 0, 1 >>] ]

\* Lines 193-348: the workbook, the summary sheet with its total row and
\* its time stamp, and the list of sites the worksheet loop will walk.
RenderSummary ==
    /\ pc = "aggregate"
    /\ idx > Len(all_items)
    /\ LET rows == SummaryRows(site_device_counts)
           keys == SummaryKeys(site_device_counts)
       IN /\ wb' = [ summary_rows |-> rows, total_row |-> << TotalRow(rows) >>,
                     report_dt |-> clock, sheets |-> << >> ]
          /\ devices' = IF keys = << >> THEN devices
                        ELSE DevicesAt(site_device_counts, Last(keys))
    /\ sites' = SortedSites(site_device_counts)
    /\ site_idx' = 1
    /\ pc' = "render_sites"
    /\ UNCHANGED << env, server, clock, reruns, NETBOX_URL, NETBOX_TOKEN, requests,
                    url, fetch_all_items, vms, all_items, idx, site_device_counts,
                    debug_file, excel_file, prev_file >>

\* sorted(devices, key=lambda d: d['name']) compares names: None cannot be
\* compared (TypeError) as soon as there are two devices.
Unsortable(devs) == Len(devs) >= 2 /\ \E i \in DOMAIN devs : devs[i].name = NULL

InsertByName(out, d) ==
    LET k == Cardinality({i \in DOMAIN out : StrRank(out[i].name) <= StrRank(d.name)})
    IN SubSeq(out, 1, k) \o << d >> \o SubSeq(out, k + 1, Len(out))

RECURSIVE SortFrom(_, _, _)
SortFrom(devs, i, out) ==
    IF i > Len(devs) THEN out ELSE SortFrom(devs, i + 1, InsertByName(out, devs[i]))

\* A sort that leaves the list as it is.
sorted_by_name_noop(devs) == devs

\* Lines 376 and 424: a stable sort by name.
sorted_by_name(devs) == IF Len(devs) < 2 THEN devs ELSE SortFrom(devs, 1, << >>)

Row(kind, cells, fonts) == [kind |-> kind, cells |-> cells, fonts |-> fonts]

\* Lines 377-403 and 425-450: the appended row of eleven cells, then the
\* eight marks written from column 7 on.
DeviceRow(device) ==
    LET appended == << device.name, short_desc(device.description, 100),
                       device.tenant, device.contact, device.location,
                       device.platform, "", "", "", "", "" >>
        ticks == << tick(device.tenant_present), tick(device.contact_present),
                    tick(device.location_present), tick(device.platform_present),
                    tick(Truthy(device.primary_ip)), tick(Truthy(device.serial)),
                    tick(Truthy(device.backup_primary)),
                    tick(device.monitoring_required # "False") >>
        start == 7
        last == start + Len(ticks) - 1
        width == IF Len(appended) > last THEN Len(appended) ELSE last
    IN Row("device",
           [c \in 1..width |->
              IF c >= start /\ c <= last THEN ticks[c - start + 1][1] ELSE appended[c]],
           [c \in 1..Len(ticks) |-> ticks[c][2]])

\* Lines 362-407 and 412-453: caption, table header, then (unless the sort
\* raises) the device rows and an empty row.
TableRows(heading, subheading, devs) ==
    << Row("caption", << heading, subheading >>, << >>), Row("header", headers, << >>) >>
    \o (IF Unsortable(devs) THEN << >>
        ELSE LET sd == sorted_by_name(devs)
             IN [i \in DOMAIN sd |-> DeviceRow(sd[i])] \o << Row("blank", << >>, << >>) >>)

\* Lines 355-358: the buckets the worksheet of a site looks up.
SiteKeys(counts, site) ==
    FlattenSeq([j \in DOMAIN HEADING_ORDER |->
        IF HeadingIn(counts, site, HEADING_ORDER[j])
        THEN KeysUnder(site, HEADING_ORDER[j], Subheadings(HEADING_ORDER[j]))
        ELSE << >>])

\* Position of the first looked-up bucket whose sort raises, 0 if none.
FirstUnsortable(counts, keys) ==
    LET bad == {i \in DOMAIN keys : Unsortable(DevicesAt(counts, keys[i]))}
    IN IF bad = {} THEN 0 ELSE CHOOSE i \in bad : \A j \in bad : i <= j

\* Lines 348-466: the worksheet of one site.
RenderSite ==
    /\ pc = "render_sites"
    /\ site_idx <= Len(sites)
    /\ LET site == sites[site_idx]
           keys == SiteKeys(site_device_counts, site)
           bad == FirstUnsortable(site_device_counts, keys)
           visited == IF bad = 0 THEN keys ELSE SubSeq(keys, 1, bad)
           other_devices == DevicesAt(site_device_counts, << site, "Other", "Other" >>)
           tables == FlattenSeq([i \in DOMAIN visited |->
                        LET devs == DevicesAt(site_device_counts, visited[i])
                        IN IF devs = << >> THEN << >>
                           ELSE TableRows(visited[i][2], visited[i][3], devs)])
           other == IF bad = 0 /\ other_devices # << >>
                    THEN TableRows("Other", "Other", other_devices) ELSE << >>
           raised == bad # 0 \/ Unsortable(other_devices)
           sheet == [ title |-> site,
                      rows |-> << Row("title", << site >>, << >>) >> \o tables \o other ]
       IN /\ site_device_counts' = Touch(site_device_counts, Range(visited))
          /\ devices' = IF visited = << >> THEN devices
                        ELSE DevicesAt(site_device_counts, Last(visited))
          /\ wb' = [wb EXCEPT !.sheets = Append(@, sheet)]
          /\ pc' = IF raised THEN "TypeError" ELSE pc
          /\ site_idx' = IF raised THEN site_idx ELSE site_idx + 1
    /\ UNCHANGED << env, server, clock, reruns, NETBOX_URL, NETBOX_TOKEN, requests,
                    url, fetch_all_items, vms, all_items, idx, debug_file, sites,
                    excel_file, prev_file >>

\* Lines 468-470.
Save ==
    /\ pc = "render_sites"
    /\ site_idx > Len(sites)
    /\ excel_file' = << wb >>
    /\ pc' = "done"
    /\ UNCHANGED << env, server, clock, reruns, NETBOX_URL, NETBOX_TOKEN, requests,
                    url, fetch_all_items, devices, vms, all_items, idx,
                    site_device_counts, debug_file, wb, sites, site_idx, prev_file >>

\* ------------------------------------------------------------- second run
Occurrences(s, x) == Cardinality({i \in DOMAIN s : s[i] = x})

\* The lists that hold the items of s in some order.
Perms(s) ==
    { t \in [DOMAIN s -> Range(s)] :
        \A x \in Range(s) : Occurrences(t, x) = Occurrences(s, x) }

\* The script is launched again: a new process, the files of the first run
\* still on disk, the same items on the server in any order, the clock
\* where it was or later.
Rerun ==
    /\ pc = "done"
    /\ reruns > 0
    /\ reruns' = reruns - 1
    /\ \E d \in Perms(ResultsOf(server[DevicesPath][1])),
          v \in Perms(ResultsOf(server[VMsPath][1])) :
          server' = [server EXCEPT ![DevicesPath][1].results = << d >>,
                                   ![VMsPath][1].results = << v >>]
    /\ clock' \in {clock, clock + 1}
    /\ prev_file' = excel_file
    /\ pc' = "start"
    /\ NETBOX_URL' = NULL
    /\ NETBOX_TOKEN' = NULL
    /\ requests' = << >>
    /\ url' = NoUrl("none")
    /\ fetch_all_items' = << >>
    /\ devices' = << >>
    /\ vms' = << >>
    /\ all_items' = << >>
    /\ idx' = 1
    /\ site_device_counts' = NoBuckets
    /\ wb' = NoWorkbook
    /\ sites' = << >>
    /\ site_idx' = 1
    /\ UNCHANGED << env, debug_file, excel_file >>

Next ==
    \/ CheckEnv
    \/ OpenDebug
    \/ FetchPage
    \/ ReturnDevices
    \/ ReturnVMs
    \/ AggregateItem
    \/ RenderSummary
    \/ RenderSite
    \/ Save
    \/ Rerun

Spec == Init /\ [][Next]_vars

\* ------------------------------------------------------------- the claims
\* What a fetched item says, read off its fields.
ItemStatus(item) == IF item.status.form = "absent" THEN NULL ELSE Get(item.status.value)
ItemRoleId(item) == item.role.id
ItemSite(item) == IF item.site \in {ABSENT, NULL} THEN "Unassigned Site" ELSE item.site
ItemName(item) == IF item.name = ABSENT THEN "Unknown Device" ELSE item.name

\* The items whose turn of the aggregation loop is over.
Taken == 1..(idx - 1)

\* The loop is in the turn of an item (the next step is that turn).
InTurn == pc = "aggregate" /\ idx <= Len(all_items)

\* The aggregation loop has run to the end of the list.
LoopFinished ==
    \/ pc = "aggregate" /\ idx > Len(all_items)
    \/ pc \in {"render_sites", "TypeError", "done"}

ListedPairs(r) ==
    { << g.heading, g.subheading >> :
        g \in {x \in Range(DEVICE_ROLE_GROUPS) : r \in Range(x.role_ids)} }

ExpectedPair(rid) ==
    IF rid = << >> \/ ListedPairs(rid[1]) = {} THEN << "Other", "Other" >>
    ELSE CHOOSE p \in ListedPairs(rid[1]) : TRUE

ExpectedKey(item) ==
    << ItemSite(item), ExpectedPair(ItemRoleId(item))[1], ExpectedPair(ItemRoleId(item))[2] >>

Reverse(s) == [i \in DOMAIN s |-> s[Len(s) + 1 - i]]

\* C1: an item with a role ID that passed the filters is in the bucket of
\* the (heading, subheading) under which the table lists its role ID, or of
\* ("Other", "Other") when the table lists it nowhere; no role ID is listed
\* twice, so the table read backwards gives the same pair.
C1_ClassifiedAsListed ==
    \A i \in Taken :
        LET item == all_items[i]
            rid == ItemRoleId(item)
            p == ExpectedPair(rid)
            key == ExpectedKey(item)
        IN (/\ rid # << >>
            /\ rid[1] \notin {2, 11}
            /\ ItemStatus(item) \in {"active", "int:1", "bool:true"})
           => /\ Cardinality(ListedPairs(rid[1])) <= 1
              /\ LookupFrom(Reverse(DEVICE_ROLE_GROUPS), 1, rid[1]) = p
              /\ key \in DOMAIN site_device_counts
              /\ \E j \in DOMAIN site_device_counts[key].devices :
                    LET d == site_device_counts[key].devices[j]
                    IN d.heading = p[1] /\ d.subheading = p[2] /\ d.name = ItemName(item)
              /\ Len(all_items) = 1 =>
                    \A k \in DOMAIN site_device_counts :
                        site_device_counts[k].count > 0 => k = key

\* C1 witness: a device of role 46, the last ID of the table, has been put
\* in its bucket.
C1_Witness ==
    /\ pc = "aggregate"
    /\ idx = 2
    /\ ItemRoleId(all_items[1]) = <<46>>
    /\ << "SiteA", "Wireless Access Equipment", "Access Equipment" >>
          \in DOMAIN site_device_counts

\* C2 as written: the turn of an item whose status is not "active" leaves
\* every bucket as it was.
C2_Original ==
    [][ (InTurn /\ ItemStatus(all_items[idx]) # "active")
        => site_device_counts' = site_device_counts ]_vars

\* C2 as amended: the turn of an item whose status is neither "active" nor
\* equal to the number 1 (the JSON values 1 and true) leaves every bucket as
\* it was.
C2_InactiveNeverBucketed ==
    [][ (InTurn /\ ItemStatus(all_items[idx]) \notin {"active", "int:1", "bool:true"})
        => site_device_counts' = site_device_counts ]_vars

\* C2 witness: the turns of an active item and then of an offline one are
\* over, and the bucket holds one item.
C2_Witness ==
    /\ pc = "aggregate"
    /\ idx = 3
    /\ ItemStatus(all_items[1]) = "active"
    /\ ItemStatus(all_items[2]) = "offline"
    /\ all_items[2].status.form = "dict"
    /\ \E k \in DOMAIN site_device_counts : site_device_counts[k].count = 1

\* The active items of the fetched list whose role is not excluded.
ActiveKept ==
    { i \in DOMAIN all_items :
        /\ ItemStatus(all_items[i]) = "active"
        /\ ItemRoleId(all_items[i]) = << >> \/ ItemRoleId(all_items[i])[1] \notin {2, 11} }

\* C3: on every fetched list, items with an absent or null site or role
\* included, the aggregation loop gets to the end of the list, and then the
\* count of every bucket is the number of active, non-excluded items of its
\* (site or 'Unassigned Site', heading, subheading), and no such item is
\* without a bucket.
C3_EveryKeptItemInOneBucket ==
    /\ pc # "AttributeError"
    /\ LoopFinished =>
          /\ \A k \in DOMAIN site_device_counts :
                site_device_counts[k].count =
                    Cardinality({i \in ActiveKept : ExpectedKey(all_items[i]) = k})
          /\ \A i \in ActiveKept : ExpectedKey(all_items[i]) \in DOMAIN site_device_counts

\* C4: the turn of an item whose role ID is 2 or 11 leaves every bucket as
\* it was, and the table lists neither 2 nor 11.
C4_ExcludedRolesDropped ==
    /\ \A r \in {2, 11} : ListedPairs(r) = {}
    /\ [][ (InTurn /\ ItemRoleId(all_items[idx]) \in {<<2>>, <<11>>})
           => site_device_counts' = site_device_counts ]_vars

\* C4 witness: the turn of an active device of role 11, given as a bare
\* integer, is over and there is no bucket.
C4_Witness ==
    /\ pc = "aggregate"
    /\ idx = 2
    /\ all_items[1].role = Role("int", <<11>>)
    /\ ItemStatus(all_items[1]) = "active"
    /\ site_device_counts = NoBuckets

IndexOf(seq, x) == CHOOSE i \in DOMAIN seq : seq[i] = x

HeadingPos(h) == IndexOf(HEADING_ORDER \o << "Other" >>, h)
SubheadingPos(h, sh) == IF h = "Other" THEN 1 ELSE IndexOf(Subheadings(h), sh)

\* (site, heading, subheading) a comes before b in the order of the report.
KeyBefore(a, b) ==
    \/ StrRank(a[1]) < StrRank(b[1])
    \/ a[1] = b[1] /\ HeadingPos(a[2]) < HeadingPos(b[2])
    \/ a[1] = b[1] /\ a[2] = b[2] /\ SubheadingPos(a[2], a[3]) < SubheadingPos(b[2], b[3])

\* The report is in the order the claim names.
Ordered(book) ==
    /\ \A i, j \in DOMAIN book.sheets :
          i < j => StrRank(book.sheets[i].title) < StrRank(book.sheets[j].title)
    /\ \A i, j \in DOMAIN book.summary_rows :
          i < j => LET a == book.summary_rows[i]
                       b == book.summary_rows[j]
                   IN KeyBefore(<< a.site, a.heading, a.subheading >>,
                                << b.site, b.heading, b.subheading >>)
    /\ \A s \in DOMAIN book.sheets :
          LET rows == book.sheets[s].rows
              title == book.sheets[s].title
          IN /\ \A i, j \in DOMAIN rows :
                   (i < j /\ rows[i].kind = "caption" /\ rows[j].kind = "caption")
                   => KeyBefore(<< title, rows[i].cells[1], rows[i].cells[2] >>,
                                << title, rows[j].cells[1], rows[j].cells[2] >>)
             /\ \A i \in DOMAIN rows :
                   (i < Len(rows) /\ rows[i].kind = "device" /\ rows[i + 1].kind = "device")
                   => StrRank(rows[i].cells[1]) <= StrRank(rows[i + 1].cells[1])

\* The second run on the same items has saved its report.
SecondRunDone == pc = "done" /\ reruns = 0 /\ prev_file # << >>

StripStamp(file) == [file[1] EXCEPT !.report_dt = 0]

\* No table holds two different items of the same name.
TieFree ==
    \A k \in DOMAIN site_device_counts :
        \A i, j \in DOMAIN site_device_counts[k].devices :
            LET a == site_device_counts[k].devices[i]
                b == site_device_counts[k].devices[j]
            IN a.name = b.name => a = b

\* C5 as written: a second run on the same items, fetched in any order,
\* saves the same report as the first, and every saved report is in the
\* order of the claim.
C5_Original ==
    /\ SecondRunDone => excel_file = prev_file
    /\ pc = "done" => Ordered(excel_file[1])

\* C5 as amended: two runs on the same items that both finish save the same
\* summary rows, total row and sheet titles; the sheets are the same when no
\* table holds two different items of one name (such items stay in the order
\* of the fetch); the time stamp is the time of the run.  Every saved report
\* has its sites in ascending order, its headings in HEADING_ORDER followed
\* by "Other", its subheadings in table order and the items of a table in
\* ascending name order.
C5_SameReportButStampAndTies ==
    /\ SecondRunDone =>
          /\ excel_file[1].summary_rows = prev_file[1].summary_rows
          /\ excel_file[1].total_row = prev_file[1].total_row
          /\ [i \in DOMAIN excel_file[1].sheets |-> excel_file[1].sheets[i].title]
             = [i \in DOMAIN prev_file[1].sheets |-> prev_file[1].sheets[i].title]
          /\ TieFree => StripStamp(excel_file) = StripStamp(prev_file)
          /\ excel_file[1].report_dt = clock
    /\ pc = "done" => Ordered(excel_file[1])

\* C5 witness: the second run has saved its report after the server gave
\* "beta" before "alpha", two items of one table.
C5_Witness ==
    /\ SecondRunDone
    /\ TieFree
    /\ ResultsOf(server[DevicesPath][1]) = << [BaseItem EXCEPT !.name = "beta"], BaseItem >>
    /\ Len(excel_file[1].sheets[1].rows) = 6

Missing(v) == v \in {UNSET, ""}

\* C6: with no token, or with neither NETBOX_URL nor NETBOX_API, the run
\* gets no further than the exit: no request, no debug file, no report.
\* With a token and NETBOX_API but no NETBOX_URL the run does not exit and
\* every request goes to NETBOX_API.
C6_FailFastOnEnvironment ==
    LET no_token == Missing(env.NETBOX_TOKEN)
        no_url == Missing(env.NETBOX_URL) /\ Missing(env.NETBOX_API)
        api_base == IF env.NETBOX_API = "http://nb-a/" THEN "http://nb-a"
                    ELSE env.NETBOX_API
    IN /\ (no_token \/ no_url) =>
             /\ pc \in {"start", "exit1"}
             /\ requests = << >>
             /\ debug_file = << >>
             /\ excel_file = << >>
       /\ (~no_token /\ Missing(env.NETBOX_URL) /\ ~Missing(env.NETBOX_API)) =>
             /\ pc # "exit1"
             /\ pc # "start" => NETBOX_URL = env.NETBOX_API
             /\ \A i \in DOMAIN requests : requests[i].base = api_base

\* C6 witness: the run has exited with a URL and an empty token.
C6_Witness ==
    /\ pc = "exit1"
    /\ env.NETBOX_URL = "http://nb-b"
    /\ env.NETBOX_TOKEN = ""

FailedRequests == {i \in DOMAIN requests : Respond(server, requests[i]).status >= 400}

\* C7: once a request was answered with an error status the run has stopped
\* there: it is the last request, its URL was requested once, no bucket
\* holds anything, no workbook exists and the report file is as it was.
C7_HttpErrorStopsRun ==
    FailedRequests # {} =>
        /\ pc = "HTTPError"
        /\ FailedRequests = {Len(requests)}
        /\ \A j \in DOMAIN requests : j < Len(requests) => requests[j] # Last(requests)
        /\ site_device_counts = NoBuckets
        /\ all_items = << >>
        /\ wb = NoWorkbook
        /\ excel_file = prev_file

\* C7 witness: the second VM page failed after the devices and the first
\* VM page had been fetched.
C7_Witness ==
    /\ pc = "HTTPError"
    /\ Last(requests).listing = VMsPath
    /\ Last(requests).page = 2
    /\ devices # << >>
    /\ fetch_all_items # << >>

RequestsOf(listing) == SelectSeq(requests, LAMBDA u : u.listing = listing)

\* The first page of a listing that does not link on.
EndsChain(listing, p) == p \in DOMAIN server[listing] /\ server[listing][p].next # "LINK"
ChainEnd(listing) ==
    CHOOSE p \in DOMAIN server[listing] :
        EndsChain(listing, p) /\ \A q \in 1..(p - 1) : ~EndsChain(listing, q)

ItemsUpTo(listing, n, t) ==
    FlattenSeq([p \in 1..n |-> Tagged(ResultsOf(server[listing][p]), t)])

\* The device listing has been returned, and the VM listing has.  The
\* rendering uses `devices` for its own lists, so what the fetch returned
\* is in `devices` until the rendering starts.
DevicesReturned == pc = "fetch_vms" \/ RequestsOf(VMsPath) # << >>
DevicesKept == pc \in {"fetch_vms", "HTTPError", "aggregate", "AttributeError"}
VMsReturned == pc \in {"aggregate", "AttributeError", "render_sites", "TypeError", "done"}

\* C8: the requests are page 1, 2, ... of the device listing and then page
\* 1, 2, ... of the VM listing, each page once and none behind a page whose
\* 'next' is null, empty or absent; a returned listing was requested up to
\* that page and holds the items of its pages in page order, tagged.
C8_FetchFollowsChain ==
    LET base == RStripSlash(NETBOX_URL)
        dr == RequestsOf(DevicesPath)
        vr == RequestsOf(VMsPath)
    IN /\ requests = dr \o vr
       /\ \A i \in DOMAIN dr : dr[i] = Url(base, DevicesPath, i)
       /\ \A i \in DOMAIN vr : vr[i] = Url(base, VMsPath, i)
       /\ \A i \in DOMAIN requests :
             \A q \in 1..(requests[i].page - 1) :
                 /\ ~EndsChain(requests[i].listing, q)
                 /\ server[requests[i].listing][q].status = 200
       /\ DevicesReturned =>
             /\ Len(dr) = ChainEnd(DevicesPath)
             /\ DevicesKept => devices = ItemsUpTo(DevicesPath, Len(dr), "device")
       /\ VMsReturned =>
             /\ Len(dr) = ChainEnd(DevicesPath)
             /\ Len(vr) = ChainEnd(VMsPath)
             /\ vms = ItemsUpTo(VMsPath, Len(vr), "vm")
             /\ all_items = ItemsUpTo(DevicesPath, Len(dr), "device") \o vms

\* C8 witness: both listings had two pages and four items have come back.
C8_Witness ==
    /\ pc = "aggregate"
    /\ idx = 1
    /\ Len(requests) = 4
    /\ Len(all_items) = 4
    /\ all_items[3]._item_type = "vm"

IsPrefix(a, b) == Len(a) <= Len(b) /\ SubSeq(b, 1, Len(a)) = a

CountIsLen ==
    \A k \in DOMAIN site_device_counts :
        site_device_counts[k].count = Len(site_device_counts[k].devices)

Rendering == (pc = "aggregate" /\ idx > Len(all_items)) \/ pc = "render_sites"

\* C9: the count of every bucket is the length of its list; within a run a
\* step removes no bucket and shortens no count and no list; a step of the
\* rendering leaves every bucket that holds items as it was.
C9_BucketsOnlyGrow ==
    /\ []CountIsLen
    /\ [][ pc # "done" =>
             /\ \A k \in DOMAIN site_device_counts :
                   /\ k \in DOMAIN site_device_counts'
                   /\ site_device_counts'[k].count >= site_device_counts[k].count
                   /\ IsPrefix(site_device_counts[k].devices, site_device_counts'[k].devices)
             /\ Rendering =>
                   \A k \in DOMAIN site_device_counts :
                       site_device_counts[k].count > 0
                       => site_device_counts'[k] = site_device_counts[k] ]_vars

\* C9 witness: the worksheet of a site has been written, and it made an
\* empty bucket next to a bucket of two items.
C9_Witness ==
    /\ pc = "render_sites"
    /\ site_idx = 2
    /\ \E k \in DOMAIN site_device_counts : site_device_counts[k].count = 0
    /\ \E k \in DOMAIN site_device_counts : site_device_counts[k].count = 2

HeaderCol(h) == IndexOf(headers, h)
Mark(b) == IF b THEN "TICK" ELSE "CROSS"

\* C10: in every device row the mark of the primary IP is under "Primary
\* IP", that of the serial under "Serial", that of the backup under "Backup
\* Data" and that of the monitoring flag under "Monitoring Required", and
\* no mark is in a column without a header.
C10_MarksUnderTheirHeaders ==
    \A s \in DOMAIN wb.sheets :
        \A r \in DOMAIN wb.sheets[s].rows :
            LET row == wb.sheets[s].rows[r]
            IN row.kind = "device" =>
                 /\ \A c \in DOMAIN row.cells :
                       c > Len(headers) => row.cells[c] \notin {"TICK", "CROSS"}
                 /\ \E k \in DOMAIN site_device_counts :
                       /\ k[1] = wb.sheets[s].title
                       /\ \E j \in DOMAIN site_device_counts[k].devices :
                             LET d == site_device_counts[k].devices[j]
                             IN /\ d.name = row.cells[1]
                                /\ row.cells[HeaderCol("Primary IP")] = Mark(Truthy(d.primary_ip))
                                /\ row.cells[HeaderCol("Serial")] = Mark(Truthy(d.serial))
                                /\ row.cells[HeaderCol("Backup Data - Primay")]
                                      = Mark(Truthy(d.backup_primary))
                                /\ row.cells[HeaderCol("Monitoring Required")]
                                      = Mark(d.monitoring_required # "False")

\* Every heading of the classification table is at exactly one position of
\* HEADING_ORDER.
HeadingsOnce ==
    \A h \in TableHeadings :
        Cardinality({i \in DOMAIN HEADING_ORDER : HEADING_ORDER[i] = h}) = 1

\* The summary rows of a bucket.
SummaryRowsOf(k) ==
    { r \in DOMAIN wb.summary_rows :
        << wb.summary_rows[r].site, wb.summary_rows[r].heading,
           wb.summary_rows[r].subheading >> = k }

\* Every bucket that holds items has one summary row, which counts its
\* items, and every summary row is the row of such a bucket.
CountedOnce ==
    /\ \A k \in DOMAIN site_device_counts :
          site_device_counts[k].devices # << >> =>
             /\ Cardinality(SummaryRowsOf(k)) = 1
             /\ \A r \in SummaryRowsOf(k) :
                   wb.summary_rows[r].count = Len(site_device_counts[k].devices)
    /\ \A r \in DOMAIN wb.summary_rows :
          \E k \in DOMAIN site_device_counts :
              r \in SummaryRowsOf(k) /\ site_device_counts[k].devices # << >>

\* The places (bucket, position) of the items held for a site, and the
\* device rows of a sheet.
HeldAt(site) ==
    UNION { { << k, j >> : j \in DOMAIN site_device_counts[k].devices } :
              k \in {b \in DOMAIN site_device_counts : b[1] = site} }

DeviceRowsOf(sheet) == SelectSeq(sheet.rows, LAMBDA row : row.kind = "device")

\* Every site that holds items has one sheet, and the device rows of the
\* sheet are the rows of the held items, each as often as it is held.
ListedOnce ==
    \A k \in DOMAIN site_device_counts :
        site_device_counts[k].devices # << >> =>
           LET mine == {s \in DOMAIN wb.sheets : wb.sheets[s].title = k[1]}
           IN /\ Cardinality(mine) = 1
              /\ \A s \in mine :
                    LET rows == DeviceRowsOf(wb.sheets[s])
                    IN /\ Len(rows) = Cardinality(HeldAt(k[1]))
                       /\ \A x \in Range(rows) :
                             Occurrences(rows, x) =
                                Cardinality({ p \in HeldAt(k[1]) :
                                    DeviceRow(site_device_counts[p[1]].devices[p[2]]) = x })

\* The run is over after the aggregation loop got to the end of the list.
RenderingOver == pc \in {"done", "TypeError"}

\* C11: every heading of the table occurs once in HEADING_ORDER; once the
\* summary is written every bucket item is counted in one summary row, that
\* of its bucket, and the "ALL SITES" count is the number of active,
\* non-excluded fetched items; when the run is over every bucket item is
\* listed in one device row of the sheet of its site.
C11_RenderingLosesNothing ==
    /\ HeadingsOnce
    /\ wb # NoWorkbook =>
          /\ CountedOnce
          /\ wb.total_row[1].count = Cardinality(ActiveKept)
    /\ RenderingOver => ListedOnce

====
